---- MODULE Spec2Model ----
(***************************************************************************)
(* Password strength analyzer (password-strength-checker.py).              *)
(*                                                                         *)
(* A password is a sequence of one-character strings.  The three functions *)
(* of the script (calculate_entropy, analyze_password_patterns,            *)
(* calculate_password_strength) and the requirements table of main() are   *)
(* operators; the actions apply them, in the order main() calls them, to   *)
(* the current value of the text input.  The functions are applied to      *)
(* every value of the input, the empty one included (main() itself calls   *)
(* them for a non-empty input only, line 170; the functions take any       *)
(* string).  A call of calculate_password_strength that raises does not    *)
(* keep the other functions from being applied.                            *)
(*                                                                         *)
(* Integers of the script are unbounded; possible_chars ** len(password)   *)
(* is kept exactly, as a little-endian sequence of base-1000 limbs, and is *)
(* multiplied up a few factors per step.                                   *)
(***************************************************************************)
EXTENDS Integers, Sequences, FiniteSets, TLC

VARIABLES password, edits, pc, result, combinations, remaining,
          entropy, patterns, requirements

vars == <<password, edits, pc, result, combinations, remaining,
          entropy, patterns, requirements>>

(***************************************************************************)
(* Bounds of the model.                                                    *)
(***************************************************************************)
\* Spec: number of pieces of text the user enters one after the other.
MaxEdits == 3
\* SpecLong: number of key-repeat runs the user enters, and their length.
MaxRuns == 4
RunLen == 55

(***************************************************************************)
(* Small helpers: Python builtins used by the script.                      *)
(***************************************************************************)
Range(s) == {s[i] : i \in DOMAIN s}

min(a, b) == IF a < b THEN a ELSE b

\* bool -> int, as sum([...]) does with True/False
int_of_bool(b) == IF b THEN 1 ELSE 0

\* int.bit_length(): number of bits of n, 0 for 0
RECURSIVE bit_length(_)
bit_length(n) == IF n = 0 THEN 0 ELSE 1 + bit_length(n \div 2)

\* `sub in s` for strings, and re.search of a literal
Contains(s, sub) ==
    \E i \in 1..(Len(s) - Len(sub) + 1) : SubSeq(s, i, i + Len(sub) - 1) = sub

\* re.search of an alternation (?:x|y|...) of literals
search_any(alternatives, s) == \E sub \in alternatives : Contains(s, sub)

\* re.search of a character class [...]
search_class(class, s) == \E i \in DOMAIN s : s[i] \in class

(***************************************************************************)
(* calculate_entropy                                                       *)
(***************************************************************************)
lowercase == <<"a","b","c","d","e","f","g","h","i","j","k","l","m","n","o","p","q","r","s","t","u","v","w","x","y","z">>
uppercase == <<"A","B","C","D","E","F","G","H","I","J","K","L","M","N","O","P","Q","R","S","T","U","V","W","X","Y","Z">>
numbers == <<"0","1","2","3","4","5","6","7","8","9">>
symbols == <<"!","@","#","$","%","^","&","*","(",")","_","+","-","=","[","]","{","}","|",";",":",",",".","<",">","?">>

char_sets == <<lowercase, uppercase, numbers, symbols>>

\* the loop over char_sets.values(): pool_size after the first k sets
RECURSIVE pool_size(_, _)
pool_size(pw, k) ==
    IF k = 0 THEN 0
    ELSE pool_size(pw, k - 1)
         + (IF \E i \in DOMAIN pw : pw[i] \in Range(char_sets[k])
            THEN Len(char_sets[k]) ELSE 0)

\* a plausible slip: log2 rounded down instead of bit_length
calculate_entropy_log2(pw) ==
    LET pool == pool_size(pw, Len(char_sets))
    IN  Len(pw) * (IF pool > 0 THEN bit_length(pool) - 1 ELSE 0)

calculate_entropy(pw) ==
    LET pool == pool_size(pw, Len(char_sets))
    IN  Len(pw) * (IF pool > 0 THEN bit_length(pool) ELSE 0)

(***************************************************************************)
(* Pattern tests shared by analyze_password_patterns and                   *)
(* calculate_password_strength (the same regular expressions in both).     *)
(***************************************************************************)
\* str.lower() on the characters of the model (ASCII letters)
lower(pw) ==
    [i \in DOMAIN pw |->
        IF \E k \in DOMAIN uppercase : uppercase[k] = pw[i]
        THEN lowercase[CHOOSE k \in DOMAIN uppercase : uppercase[k] = pw[i]]
        ELSE pw[i]]

\* r'(.)\1{2,}': a character other than newline, followed twice by itself
search_repeated(pw) ==
    \E i \in 1..(Len(pw) - 2) :
        pw[i] # "\n" /\ pw[i + 1] = pw[i] /\ pw[i + 2] = pw[i]

\* a plausible slip: the wrap-around alternative 7890 left out
sequential_numbers_no_wrap ==
    { <<"0","1","2","3">>, <<"1","2","3","4">>, <<"2","3","4","5">>,
      <<"3","4","5","6">>, <<"4","5","6","7">>, <<"5","6","7","8">>,
      <<"6","7","8","9">> }

\* r'(?:0123|1234|2345|3456|4567|5678|6789|7890)'
sequential_numbers ==
    { <<"0","1","2","3">>, <<"1","2","3","4">>, <<"2","3","4","5">>,
      <<"3","4","5","6">>, <<"4","5","6","7">>, <<"5","6","7","8">>,
      <<"6","7","8","9">>, <<"7","8","9","0">> }

\* r'(?:abcd|bcde|...|wxyz)'
sequential_letters ==
    { <<"a","b","c","d">>, <<"b","c","d","e">>, <<"c","d","e","f">>, <<"d","e","f","g">>,
      <<"e","f","g","h">>, <<"f","g","h","i">>, <<"g","h","i","j">>, <<"h","i","j","k">>,
      <<"i","j","k","l">>, <<"j","k","l","m">>, <<"k","l","m","n">>, <<"l","m","n","o">>,
      <<"m","n","o","p">>, <<"n","o","p","q">>, <<"o","p","q","r">>, <<"p","q","r","s">>,
      <<"q","r","s","t">>, <<"r","s","t","u">>, <<"s","t","u","v">>, <<"t","u","v","w">>,
      <<"u","v","w","x">>, <<"v","w","x","y">>, <<"w","x","y","z">> }

keyboard_patterns ==
    { <<"q","w","e","r","t","y">>, <<"a","s","d","f","g","h">>, <<"z","x","c","v","b","n">> }

search_sequential_numbers(pw) == search_any(sequential_numbers, pw)

search_sequential_letters(pw) == search_any(sequential_letters, lower(pw))

(***************************************************************************)
(* analyze_password_patterns                                               *)
(***************************************************************************)
analyze_password_patterns(pw) ==
    (IF search_repeated(pw) THEN <<"Contains repeated characters">> ELSE <<>>)
    \o (IF search_sequential_numbers(pw) THEN <<"Contains sequential numbers">> ELSE <<>>)
    \o (IF search_sequential_letters(pw) THEN <<"Contains sequential letters">> ELSE <<>>)
    \o (IF search_any(keyboard_patterns, lower(pw))
        THEN <<"Contains keyboard patterns">> ELSE <<>>)

(***************************************************************************)
(* Exact naturals for possible_chars ** len(password): little-endian       *)
(* sequences of limbs below Base, without leading zero limbs.              *)
(***************************************************************************)
Base == 10^3

\* every column keeps its low limb and hands the rest to the next column
Pass(v) ==
    SubSeq([k \in 1..Len(v) |->
               (v[k] % Base) + (IF k > 1 THEN v[k - 1] \div Base ELSE 0)],
           1, Len(v))

\* carry out of column k, when every column is below 2 * Base - 1
RECURSIVE CarryOut(_, _)
CarryOut(v, k) ==
    /\ k >= 1
    /\ \/ v[k] >= Base
       \/ v[k] = Base - 1 /\ CarryOut(v, k - 1)

Ripple(v) ==
    SubSeq([k \in 1..Len(v) |->
               (v[k] + (IF CarryOut(v, k - 1) THEN 1 ELSE 0)) % Base],
           1, Len(v))

RECURSIVE Trim(_)
Trim(v) ==
    IF Len(v) > 1 /\ v[Len(v)] = 0 THEN Trim(SubSeq(v, 1, Len(v) - 1)) ELSE v

\* x * m for 0 < m < 2 * 10^6: the columns x[k] * m, three limbs of room,
\* three passes to bring every column to at most Base + 2, then the carries
BigMul(x, m) ==
    Trim(Ripple(Pass(Pass(Pass(
        SubSeq([k \in 1..(Len(x) + 3) |-> IF k <= Len(x) THEN x[k] * m ELSE 0],
               1, Len(x) + 3))))))

\* <<k, b^k>>: as many of the e factors b as keep b^k below 2 * 10^6
RECURSIVE PowChunk(_, _, _, _)
PowChunk(b, e, k, acc) ==
    IF b = 1 THEN <<e, 1>>
    ELSE IF k < e /\ acc * b < 2 * 10^6 THEN PowChunk(b, e, k + 1, acc * b)
    ELSE <<k, acc>>

BigLess(x, y) ==
    IF Len(x) # Len(y) THEN Len(x) < Len(y)
    ELSE \E i \in 1..Len(x) :
            x[i] < y[i] /\ \A j \in (i + 1)..Len(x) : x[j] = y[j]

RECURSIVE BigValue(_)
BigValue(x) == IF x = <<>> THEN 0 ELSE Head(x) + Base * BigValue(Tail(x))

(***************************************************************************)
(* combinations / (1e10): the integer is converted to a double first.      *)
(* The conversion rounds to nearest and raises OverflowError when the      *)
(* rounded value would be 2^1024, that is from 2^1024 - 2^970 on.          *)
(***************************************************************************)
\* the limbs of 2^1024 - 2^970
FloatOverflowFrom ==
    << 792, 497, 174, 904, 177, 880,  42,  93, 508, 699, 559, 711,
       342, 704, 510, 365, 444, 168,  74, 719, 292, 475, 936, 834,
       860, 819, 914, 842, 622, 959, 366, 571, 855,  69, 270, 730,
       475, 764, 531, 711, 817, 845, 854, 273, 676, 383, 708,   0,
       902, 908, 681, 820, 505, 671, 488, 657, 630, 402, 940, 851,
       547, 555, 946, 910, 887, 692, 416, 286, 330,  96, 207, 587,
       977,  17, 649, 946, 750, 764, 292, 968, 444, 980, 778, 173,
       936, 826,  37, 710, 132, 934,  79, 415, 303, 405, 971, 728,
       793, 580, 231, 486, 313, 769, 179 >>

float_overflows(comb) == ~ BigLess(comb, FloatOverflowFrom)

\* seconds_to_crack > 1e8, for seconds_to_crack = combinations / 1e10.
\* On every power possible_chars ** n the double result compares with 1e8
\* as the exact quotient does (1e18 and 1e8 are doubles, rounding is monotone
\* and no such power lies within half an ulp above 1e18).
TenTo18 == <<0, 0, 0, 0, 0, 0, 1>>

seconds_above_1e8(comb) == BigLess(TenTo18, comb)

\* int(seconds_to_crack) = combinations // 10^10, used only up to 10^18:
\* three limbs are 10^9
int_seconds(comb) ==
    BigValue(SubSeq(comb, 4, Len(comb))) \div 10

(***************************************************************************)
(* calculate_password_strength, piece by piece                             *)
(***************************************************************************)
special_class ==
    {"!","@","#","$","%","^","&","*","(",")",",",".","?","\"",":","{","}","|","<",">"}

has_lower(pw) == search_class(Range(lowercase), pw)
has_upper(pw) == search_class(Range(uppercase), pw)
has_digit(pw) == search_class(Range(numbers), pw)
has_special(pw) == search_class(special_class, pw)

\* a plausible slip: one point per four characters
length_score_div4(pw) == min(4, Len(pw) \div 4)

length_score(pw) == min(4, Len(pw) \div 3)

\* a plausible slip: the special characters left out of the sum
variety_score_no_special(pw) ==
    int_of_bool(has_lower(pw)) + int_of_bool(has_upper(pw))
    + int_of_bool(has_digit(pw))

variety_score(pw) ==
    int_of_bool(has_lower(pw)) + int_of_bool(has_upper(pw))
    + int_of_bool(has_digit(pw)) + int_of_bool(has_special(pw))

pattern_score(pw) ==
    2 - int_of_bool(search_repeated(pw))
      - int_of_bool(search_sequential_numbers(pw))
      - int_of_bool(search_sequential_letters(pw))

suggestions(pw) ==
    (IF search_repeated(pw) THEN <<"Avoid repeated characters">> ELSE <<>>)
    \o (IF search_sequential_numbers(pw) THEN <<"Avoid sequential numbers">> ELSE <<>>)
    \o (IF search_sequential_letters(pw) THEN <<"Avoid sequential letters">> ELSE <<>>)

\* int(entropy / 50) of a non-negative integer entropy
entropy_score(pw) == min(2, calculate_entropy(pw) \div 50)

possible_chars(pw) ==
    LET n == (IF has_lower(pw) THEN 26 ELSE 0) + (IF has_upper(pw) THEN 26 ELSE 0)
             + (IF has_digit(pw) THEN 10 ELSE 0) + (IF has_special(pw) THEN 32 ELSE 0)
    IN  IF n = 0 THEN 1 ELSE n

crack_times(comb) ==
    [ online_throttling_100_per_hour |->
        IF seconds_above_1e8(comb) THEN "centuries"
        ELSE ToString(int_seconds(comb) \div 3600) \o " hours",
      offline_fast_hashing_1e10_per_second |->
        IF seconds_above_1e8(comb) THEN "centuries"
        ELSE ToString(int_seconds(comb)) \o " seconds" ]

\* a plausible slip: the comparisons written <= instead of <
warning_inclusive(score) ==
    IF score <= 2 THEN "This password is very weak"
    ELSE IF score <= 4 THEN "This password is weak"
    ELSE IF score <= 6 THEN "This password is moderate"
    ELSE IF score <= 8 THEN "This password is strong"
    ELSE "This password is very strong"

warning(score) ==
    IF score < 2 THEN "This password is very weak"
    ELSE IF score < 4 THEN "This password is weak"
    ELSE IF score < 6 THEN "This password is moderate"
    ELSE IF score < 8 THEN "This password is strong"
    ELSE "This password is very strong"

\* a plausible slip: the cap at 4 left out
displayed_score_uncapped(score) == score \div 2

\* a plausible slip: halving rounded up
displayed_score_rounded(score) == min(4, (score + 1) \div 2)

\* min(4, score // 2)
displayed_score(score) == min(4, score \div 2)

NoValue == [score |-> "none"]

\* lines 87-132: the local variables up to possible_chars
strength_locals(pw) ==
    [ length_score   |-> length_score(pw),
      variety_score  |-> variety_score(pw),
      pattern_score  |-> pattern_score(pw),
      entropy_score  |-> entropy_score(pw),
      score          |-> length_score(pw) + variety_score(pw)
                         + pattern_score(pw) + entropy_score(pw),
      suggestions    |-> suggestions(pw),
      possible_chars |-> possible_chars(pw) ]

\* lines 135-158: the division raises, or the dictionary is returned
strength_result(locals, comb) ==
    IF float_overflows(comb)
    THEN [ outcome |-> "OverflowError", locals |-> locals, value |-> NoValue ]
    ELSE [ outcome |-> "return", locals |-> locals,
           value |-> [ score |-> displayed_score(locals.score),
                       feedback |-> [ warning |-> warning(locals.score),
                                      suggestions |-> locals.suggestions ],
                       crack_times_display |-> crack_times(comb) ] ]

(***************************************************************************)
(* The requirements table of main()                                        *)
(***************************************************************************)
requirements_of(pw) ==
    ("Length" :> (Len(pw) >= 12))
    @@ ("Uppercase" :> has_upper(pw))
    @@ ("Lowercase" :> has_lower(pw))
    @@ ("Numbers" :> has_digit(pw))
    @@ ("Special Characters" :> has_special(pw))

(***************************************************************************)
(* The state machine.                                                      *)
(***************************************************************************)
NotCalled == "not called"

\* pieces of text entered in Spec
Fragments ==
    { <<"a">>, <<"a","a">>, <<"Z">>, <<"7">>, <<"!">>, <<"\"">>, <<"_">>,
      <<"a","b","c","d">>, <<"W","x","Y","z">>, <<"1","2","3","4">>,
      <<"7","8","9","0">>, <<"q","w","e","r","t","y">>,
      <<"k","X","9","@","m","Q","2","$","w","L">> }

\* initial values of the input and repeated keys in SpecLong
Seeds == { <<>>, <<"Z">>, <<"!">>, <<"k","X","9","@">> }
RunKeys == {"a", "7"}

Fresh ==
    /\ pc = "strength"
    /\ result = NotCalled
    /\ combinations = <<>>
    /\ remaining = 0
    /\ entropy = NotCalled
    /\ patterns = NotCalled
    /\ requirements = NotCalled

Init ==
    /\ password = <<>>
    /\ edits = 0
    /\ Fresh

InitLong ==
    /\ password \in Seeds
    /\ edits = 0
    /\ Fresh

\* st.text_input: the user extends the input; the script starts over
text_input(f) ==
    /\ pc = "done"
    /\ edits < MaxEdits
    /\ password' = password \o f
    /\ edits' = edits + 1
    /\ pc' = "strength"
    /\ result' = NotCalled
    /\ entropy' = NotCalled
    /\ patterns' = NotCalled
    /\ requirements' = NotCalled
    /\ combinations' = <<>>
    /\ UNCHANGED remaining

\* st.text_input: the user extends the input by a run of one key
text_input_run(c) ==
    /\ pc = "done"
    /\ edits < MaxRuns
    /\ password' = password \o [i \in 1..RunLen |-> c]
    /\ edits' = edits + 1
    /\ pc' = "strength"
    /\ result' = NotCalled
    /\ entropy' = NotCalled
    /\ patterns' = NotCalled
    /\ requirements' = NotCalled
    /\ combinations' = <<>>
    /\ UNCHANGED remaining

\* calculate_password_strength, lines 87-132
call_calculate_password_strength ==
    /\ pc = "strength"
    /\ result' = [ outcome |-> "running", locals |-> strength_locals(password),
                   value |-> NoValue ]
    /\ combinations' = <<1>>
    /\ remaining' = Len(password)
    /\ pc' = "power"
    /\ UNCHANGED <<password, edits, entropy, patterns, requirements>>

\* line 134, possible_chars ** len(password): some factors more
power_step ==
    /\ pc = "power"
    /\ remaining > 0
    /\ LET c == PowChunk(result.locals.possible_chars, remaining, 1,
                         result.locals.possible_chars)
       IN  /\ combinations' = BigMul(combinations, c[2])
           /\ remaining' = remaining - c[1]
    /\ UNCHANGED <<password, edits, pc, result, entropy, patterns, requirements>>

\* calculate_password_strength, lines 135-158
strength_return ==
    /\ pc = "power"
    /\ remaining = 0
    /\ result' = strength_result(result.locals, combinations)
    /\ pc' = "entropy"
    /\ UNCHANGED <<password, edits, combinations, remaining, entropy, patterns,
                   requirements>>

call_calculate_entropy ==
    /\ pc = "entropy"
    /\ entropy' = calculate_entropy(password)
    /\ pc' = "patterns"
    /\ UNCHANGED <<password, edits, result, combinations, remaining, patterns, requirements>>

call_analyze_password_patterns ==
    /\ pc = "patterns"
    /\ patterns' = analyze_password_patterns(password)
    /\ pc' = "requirements"
    /\ UNCHANGED <<password, edits, result, combinations, remaining, entropy, requirements>>

check_requirements ==
    /\ pc = "requirements"
    /\ requirements' = requirements_of(password)
    /\ pc' = "done"
    /\ UNCHANGED <<password, edits, result, combinations, remaining, entropy, patterns>>

Calls ==
    \/ call_calculate_password_strength
    \/ power_step
    \/ strength_return
    \/ call_calculate_entropy
    \/ call_analyze_password_patterns
    \/ check_requirements

Next ==
    \/ \E f \in Fragments : text_input(f)
    \/ Calls

NextLong ==
    \/ \E c \in RunKeys : text_input_run(c)
    \/ Calls

Spec == Init /\ [][Next]_vars

SpecLong == InitLong /\ [][NextLong]_vars

(***************************************************************************)
(* Where a run of the script stands.                                       *)
(***************************************************************************)
\* the local variables of calculate_password_strength are computed
LocalsDone == pc # "strength"

\* calculate_password_strength has returned or raised
StrengthDone == pc \in {"entropy", "patterns", "requirements", "done"}

Returned == StrengthDone /\ result.outcome = "return"

EntropyDone == pc \in {"patterns", "requirements", "done"}

PatternsDone == pc \in {"requirements", "done"}

AllDone == pc = "done"

HasOneOf(class) == \E i \in DOMAIN password : password[i] \in class

(***************************************************************************)
(* C1.  Whenever calculate_password_strength returns, the displayed score  *)
(* is an integer from 0 to 4, and calculate_entropy never returns a        *)
(* negative value.                                                         *)
(***************************************************************************)
C1_ScoreAndEntropyRange ==
    /\ Returned => result.value.score \in 0..4
    /\ EntropyDone => entropy \in Nat

\* a password has been given the highest score and a positive entropy
C1_Witness ==
    /\ AllDone
    /\ result.outcome = "return"
    /\ result.locals.score > 8
    /\ result.value.score = 4
    /\ entropy > 0

(***************************************************************************)
(* C2.  calculate_password_strength is total: it returns for every         *)
(* password, and when possible_chars ** len(password) is too large for the *)
(* division by 1e10 both crack-time strings are "centuries".               *)
(***************************************************************************)
C2_TotalAndSaturating ==
    StrengthDone =>
        /\ result.outcome = "return"
        /\ float_overflows(combinations) =>
              /\ result.value.crack_times_display.online_throttling_100_per_hour
                    = "centuries"
              /\ result.value.crack_times_display.offline_fast_hashing_1e10_per_second
                    = "centuries"

(***************************************************************************)
(* C3.  The empty password.  As claimed: displayed score 0, entropy 0, the *)
(* "very weak" warning, no patterns, all five requirements false.          *)
(* As the script computes it: displayed score 1 and the "weak" warning     *)
(* (the pattern component alone gives a raw total of 2), entropy 0, no     *)
(* patterns, all five requirements false.                                  *)
(***************************************************************************)
RequirementNames ==
    {"Length", "Uppercase", "Lowercase", "Numbers", "Special Characters"}

C3_EmptyRest ==
    /\ entropy = 0
    /\ patterns = <<>>
    /\ DOMAIN requirements = RequirementNames
    /\ \A r \in RequirementNames : requirements[r] = FALSE

C4_Pool(symbol_size) ==
    (IF HasOneOf(Range(lowercase)) THEN 26 ELSE 0)
    + (IF HasOneOf(Range(uppercase)) THEN 26 ELSE 0)
    + (IF HasOneOf(Range(numbers)) THEN 10 ELSE 0)
    + (IF HasOneOf(Range(symbols)) THEN symbol_size ELSE 0)

\* the number of bits of n: the k with 2^(k-1) <= n < 2^k
C4_Bits(n) ==
    IF n = 0 THEN 0 ELSE CHOOSE k \in 1..8 : 2^(k - 1) <= n /\ n < 2^k

\* C4 as claimed
C4_EntropySymbols32 ==
    EntropyDone => entropy = Len(password) * C4_Bits(C4_Pool(32))

\* C4 as amended
C4_EntropySymbols26 ==
    EntropyDone => entropy = Len(password) * C4_Bits(C4_Pool(26))

\* a password of symbols alone has its entropy: 5 bits a character
C4_Witness ==
    /\ AllDone
    /\ password # <<>>
    /\ \A i \in DOMAIN password : password[i] \in Range(symbols)
    /\ entropy = 5 * Len(password)

(***************************************************************************)
(* C5.  Sequential digits: the finding of analyze_password_patterns, and   *)
(* the suggestion and the lost point of calculate_password_strength, are   *)
(* there if and only if the password holds four digits in a row counting   *)
(* up by one.  As claimed the runs are 0123 ... 6789; the script takes     *)
(* 7890 as well.                                                           *)
(***************************************************************************)
\* four digits d, d+1, d+2, d+3 (the last digit taken modulo 10), d <= last
C5_DigitRun(last) ==
    \E i \in 1..(Len(password) - 3) : \E d \in 0..last :
        \A j \in 0..3 : password[i + j] = numbers[((d + j) % 10) + 1]

C5_Finding == "Contains sequential numbers" \in Range(patterns)

C5_Suggestion == "Avoid sequential numbers" \in Range(result.locals.suggestions)

C5_Statement(last) ==
    /\ PatternsDone => (C5_Finding <=> C5_DigitRun(last))
    /\ LocalsDone =>
          /\ C5_Suggestion <=> C5_DigitRun(last)
          /\ result.locals.pattern_score = 2 - Len(result.locals.suggestions)
    /\ Returned => result.value.feedback.suggestions = result.locals.suggestions

\* C5 as claimed
C5_RunsUpTo6789 == C5_Statement(6)

\* C5 as amended
C5_RunsWith7890 == C5_Statement(7)

\* 7890 has been found, suggested against and penalised
C5_Witness ==
    /\ AllDone
    /\ Contains(password, <<"7","8","9","0">>)
    /\ ~ C5_DigitRun(6)
    /\ C5_Finding
    /\ C5_Suggestion
    /\ result.locals.pattern_score < 2

(***************************************************************************)
(* C6.  With seconds = possible_chars ** len(password) / 1e10: above 1e8   *)
(* seconds both crack-time strings are "centuries", otherwise they are     *)
(* "<floor(seconds/3600)> hours" and "<floor(seconds)> seconds"; a         *)
(* lowercase password of 4 characters gets "0 hours" and "0 seconds".      *)
(***************************************************************************)
C6_Online == result.value.crack_times_display.online_throttling_100_per_hour

C6_Offline == result.value.crack_times_display.offline_fast_hashing_1e10_per_second

C6_CrackTimes ==
    StrengthDone =>
        /\ result.outcome = "return"
        /\ IF BigLess(TenTo18, combinations)
           THEN C6_Online = "centuries" /\ C6_Offline = "centuries"
           ELSE /\ C6_Online = ToString(int_seconds(combinations) \div 3600) \o " hours"
                /\ C6_Offline = ToString(int_seconds(combinations)) \o " seconds"
        /\ (Len(password) = 4 /\ \A i \in 1..4 : password[i] \in Range(lowercase)) =>
              C6_Online = "0 hours" /\ C6_Offline = "0 seconds"

(***************************************************************************)
(* C7.  A password of 20 characters with a lowercase letter, an uppercase  *)
(* letter, a digit and one of the special characters, in which none of the *)
(* four patterns is found, has length component 4, variety component 4, a  *)
(* raw total of at least 8, displayed score 4 and the "very strong"        *)
(* warning.                                                                *)
(***************************************************************************)
C7_Case ==
    /\ AllDone
    /\ Len(password) = 20
    /\ HasOneOf(Range(lowercase))
    /\ HasOneOf(Range(uppercase))
    /\ HasOneOf(Range(numbers))
    /\ HasOneOf(special_class)
    /\ patterns = <<>>

C7_TwentyMixedCharacters ==
    C7_Case =>
        /\ result.locals.length_score = 4
        /\ result.locals.variety_score = 4
        /\ result.locals.score >= 8
        /\ result.outcome = "return"
        /\ result.value.score = 4
        /\ result.value.feedback.warning = "This password is very strong"

C7_Witness == C7_Case /\ result.outcome = "return"

(***************************************************************************)
(* C8.  The pattern component is within 0..2, never negative: 2 less one   *)
(* for each of repeated characters, sequential digits and sequential       *)
(* letters, and a keyboard pattern does not change it.                     *)
(***************************************************************************)
C8_PatternComponentRange ==
    LocalsDone =>
        /\ result.locals.pattern_score \in 0..2
        /\ result.locals.pattern_score = 2 - Len(result.locals.suggestions)

(***************************************************************************)
(* C9.  The raw total, the sum of the length, variety, pattern and entropy *)
(* components, is at least 2 for every password, so the displayed score is *)
(* never 0 and the warning "This password is very weak" is never returned. *)
(***************************************************************************)
C9_RawTotalAtLeast2 ==
    /\ LocalsDone =>
          /\ result.locals.score =
                result.locals.length_score + result.locals.variety_score
                + result.locals.pattern_score + result.locals.entropy_score
          /\ result.locals.score >= 2
    /\ Returned =>
          /\ result.value.score # 0
          /\ result.value.feedback.warning # "This password is very weak"

\* all three penalised patterns at once, and the call has returned
C9_Witness ==
    /\ AllDone
    /\ result.outcome = "return"
    /\ Len(result.locals.suggestions) = 3
    /\ result.locals.pattern_score = -1

(***************************************************************************)
(* C10.  In every returned result the warning goes with the displayed      *)
(* score: 0 very weak, 1 weak, 2 moderate, 3 strong, 4 very strong.        *)
(***************************************************************************)
C10_Label ==
    <<"This password is weak", "This password is moderate",
      "This password is strong", "This password is very strong">>

C10_WarningFollowsScore ==
    Returned =>
        IF result.value.score = 0
        THEN result.value.feedback.warning = "This password is very weak"
        ELSE /\ result.value.score \in 1..4
             /\ result.value.feedback.warning = C10_Label[result.value.score]

\* an odd raw total: 7 is halved to 3 and called strong
C10_Witness ==
    /\ Returned
    /\ result.locals.score = 7
    /\ result.value.score = 3
    /\ result.value.feedback.warning = "This password is strong"

====
